---- MODULE Spec2Model ----
(***************************************************************************)
(* Model of chemprop/atom_plot/molecule_drawer.py: class MoleculeDrawer.   *)
(*                                                                         *)
(*   draw_molecule_with_atom_notes  ("render")       lines 85-121          *)
(*   _get_similarity_map_from_weights ("render_field") lines 14-82         *)
(*                                                                         *)
(* Units.  Atom coordinates are integers.  A sigma is an integer number of *)
(* hundredths (0.25 is 25).  An atom weight is an integer number of tenths *)
(* (0.5 is 5).  The summary value mol_note is an integer number of eighths *)
(* (0.375 is 3), which a binary float holds exactly.  The caption's y is   *)
(* kept in tenths (1.7 * y is 17 * y tenths).                              *)
(* Python's None is the empty tuple << >>; an optional value v is <<v>>.   *)
(* Sequences are 1-based: atom i of the source is element i + 1 here.      *)
(***************************************************************************)
EXTENDS Integers, Sequences, FiniteSets, TLC

VARIABLES
  pc,              \* position in the running call
  entry,           \* "render" or "field": the function the caller invoked
  given,           \* the caller's atom_notes and sigma arguments, as passed
  smiles,          \* render's notation argument, as the structure it denotes
  mol,             \* the molecule object (atoms, bond 0, conformer, props)
  unc_type,        \* the mode selector
  mol_note,        \* render's summary value (eighths)
  atom_notes,      \* render's atom_notes (tenths), reassigned at line 94
  svg,             \* render's svg flag
  weights,         \* render_field's weights argument
  colorMap,        \* render_field's colorMap argument
  sigma,           \* render_field's sigma argument / local (<< >> is None)
  drawer,          \* the canvas object (draw2d); kind "none" is draw2d=None
  ops,             \* the operations applied to the canvas, in order
  locals,          \* render_field's locals: sigmas, locs, max_atom_pos_y, clrs
  ret,             \* what render_field returned (<< >> while it has not)
  result,          \* what render returned (<< >> while it has not)
  err              \* the exception that left the call ("" when none)

vars == <<pc, entry, given, smiles, mol, unc_type, mol_note, atom_notes, svg, weights,
          colorMap, sigma, drawer, ops, locals, ret, result, err>>

----------------------------------------------------------------------------
(* Bounds of the explored inputs. *)

MaxAtoms == 3
MaxCoord == 1

(* Program constants. *)

CanvasWidth == 520
CanvasHeight == 550
NoteFontSize == 16
CmapSteps == 100
RenderSigma == 25
RenderContours == 2
DefaultContours == 10
CaptionScale10 == 17

----------------------------------------------------------------------------
(* Helpers on sequences *)

Take(s, n) == SubSeq(s, 1, IF n < Len(s) THEN n ELSE Len(s))

Min2(a, b) == IF a < b THEN a ELSE b

Abs(a) == IF a < 0 THEN -a ELSE a

DigitChar == <<"0", "1", "2", "3", "4", "5", "6", "7", "8", "9">>

RECURSIVE Digits(_)
Digits(n) == IF n < 10 THEN DigitChar[n + 1]
             ELSE Digits(n \div 10) \o DigitChar[(n % 10) + 1]

(* str(note) of line 103 for a float held in tenths: "0.5", "1.2", "-0.3" *)
StrFloat(w) ==
  (IF w < 0 THEN "-" ELSE "") \o Digits(Abs(w) \div 10) \o "." \o Digits(Abs(w) % 10)

(* The rounding of f'{mol_note:.2f}' (lines 110-117): the value k/8 is     *)
(* 25k/2 hundredths; a float format rounds the exact value to the nearest  *)
(* hundredth and an exact tie to the even one.                             *)
RoundHundredths(m) ==
  LET q == (25 * m) \div 2
      r == (25 * m) % 2
  IN  IF r = 0 THEN q ELSE IF q % 2 = 0 THEN q ELSE q + 1

Fmt2f(k) ==
  LET h == RoundHundredths(Abs(k))
  IN  (IF k < 0 THEN "-" ELSE "") \o Digits(h \div 100) \o "."
        \o Digits((h % 100) \div 10) \o Digits(h % 10)

(* faulty variant: the final else is taken for 'epi' as well *)
CaptionPrefixNoEpi(t) ==
  IF t = "pred" THEN "Prediction: "
  ELSE IF t = "ale" THEN "Aleatoric: "
  ELSE "Total: "

(* The caption of lines 109-117: the prefix is chosen by unc_type alone.   *)
CaptionPrefix(t) ==
  IF t = "pred" THEN "Prediction: "
  ELSE IF t = "ale" THEN "Aleatoric: "
  ELSE IF t = "epi" THEN "Epistemic: "
  ELSE "Total: "

CaptionText(t, k) == CaptionPrefix(t) \o Fmt2f(k)

(* Length() of the difference of two atom positions, squared (lines 42-46) *)
Dist2(p, q) == (p[1] - q[1]) * (p[1] - q[1]) + (p[2] - q[2]) * (p[2] - q[2])

(* floor of the square root, by bisection: lo * lo <= n < hi * hi *)
RECURSIVE IsqrtBetween(_, _, _)
IsqrtBetween(n, lo, hi) ==
  IF hi - lo <= 1 THEN lo
  ELSE LET mid == (lo + hi) \div 2
       IN  IF mid * mid <= n THEN IsqrtBetween(n, mid, hi)
           ELSE IsqrtBetween(n, lo, mid)

Isqrt(n) == IsqrtBetween(n, 0, n + 1)

(* round(0.3 * length, 2) of lines 42-47, in hundredths: the nearest       *)
(* integer to 30 * sqrt(d2), which is floor((sqrt(3600 * d2) + 1) / 2).    *)
RoundSigma(d2) == (Isqrt(3600 * d2) + 1) \div 2

(* faulty variant: the bond is ignored and the first two atoms are always used *)
SigmaEndpointsNoBond(m) == <<m.conf[1], m.conf[2]>>

(* Lines 38-46: the two positions the spread is derived from.              *)
SigmaEndpoints(m) ==
  IF m.bond0 # << >> THEN <<m.conf[m.bond0[1]], m.conf[m.bond0[2]]>>
  ELSE <<m.conf[1], m.conf[2]>>

(* Lines 37-47: sigma is derived only when the argument is None.           *)
DeriveSigma(m, sg) ==
  IF sg = << >> THEN <<RoundSigma(Dist2(SigmaEndpoints(m)[1], SigmaEndpoints(m)[2]))>>
  ELSE sg

(* Lines 51-55: the running maximum of p.y, which starts from 0.           *)
RECURSIVE MaxAtomPosY(_, _, _)
MaxAtomPosY(conf, i, acc) ==
  IF i > Len(conf) THEN acc
  ELSE MaxAtomPosY(conf, i + 1, IF conf[i][2] > acc THEN conf[i][2] ELSE acc)

(* Lines 50-54: one Point2D per atom, in index order.                      *)
Locs(conf) == [i \in 1..Len(conf) |-> <<conf[i][1], conf[i][2]>>]

TopY(conf) == MaxAtomPosY(conf, 1, 0)

----------------------------------------------------------------------------
(* The objects of the external libraries, as far as the code uses them.    *)

(* mol.GetNumHeavyAtoms() of line 94: the atoms that are not hydrogens.    *)
HeavyCount(atoms) == Cardinality({i \in 1..Len(atoms) : atoms[i] # "H"})

(* What Chem.MolFromSmiles (line 92) yields for a notation that parses: a  *)
(* molecule without conformer whose atoms carry no note and no label yet.  *)
(* layout is the 2D layout that coordinate generation gives the structure. *)
NewMol(atoms, bond0, layout, hasConf) ==
  [parsed |-> TRUE, atoms |-> atoms, bond0 |-> bond0, layout |-> layout,
   conf   |-> IF hasConf THEN layout ELSE << >>,
   note   |-> [i \in 1..Len(atoms) |-> ""],
   label  |-> [i \in 1..Len(atoms) |-> ""]]

(* What Chem.MolFromSmiles yields for a notation that does not parse: None *)
NoMol ==
  [parsed |-> FALSE, atoms |-> << >>, bond0 |-> << >>, layout |-> << >>,
   conf |-> << >>, note |-> << >>, label |-> << >>]

(* Lines 86-88 and 96-101: the drawer with render's draw options set.      *)
NewDrawer(isSvg) ==
  [kind |-> IF isSvg THEN "svg" ELSE "cairo",
   width |-> CanvasWidth, height |-> CanvasHeight,
   addAtomIndices |-> FALSE, atomNoteFontSize |-> NoteFontSize,
   clearBackground |-> TRUE, canvas |-> << >>, finished |-> FALSE]

(* draw2d = None *)
NoDrawer ==
  [kind |-> "none", width |-> 0, height |-> 0,
   addAtomIndices |-> FALSE, atomNoteFontSize |-> 0,
   clearBackground |-> TRUE, canvas |-> << >>, finished |-> FALSE]

(* Lines 90-91: the colour scale render builds, a colormap object.         *)
RenderCmap ==
  [kind |-> "cmap", steps |-> CmapSteps,
   colours |-> <<"red", "white", "red">>]

(* colorMap([0, 0.5, 1]) of lines 70 and 74: a colormap of N steps looks   *)
(* up entry 0, entry N div 2 and entry N - 1 of its table.                 *)
SampleCmap(c) ==
  <<[of |-> c.colours, at |-> 0],
    [of |-> c.colours, at |-> c.steps \div 2],
    [of |-> c.colours, at |-> c.steps - 1]>>

(* Lines 67-77: the three colours handed to ps.setColourMap, or the error  *)
(* that the subscripts of line 76 raise.                                   *)
ResolveColours(c) ==
  IF c.kind = "cmap" \/ c.kind = "name" THEN [ok |-> TRUE, err |-> "", clrs |-> SampleCmap(c)]
  ELSE IF c.kind = "list" THEN
    IF Len(c.colours) >= 3
      THEN [ok |-> TRUE, err |-> "", clrs |-> SubSeq(c.colours, 1, 3)]
      ELSE [ok |-> FALSE, err |-> "IndexError", clrs |-> << >>]
  ELSE [ok |-> FALSE, err |-> "TypeError", clrs |-> << >>]

(* draw2d.ClearDrawing() (line 61): the canvas is wiped.                   *)
ClearDrawing(d) == [d EXCEPT !.canvas = << >>]

(* draw2d.DrawMolecule(mol) (lines 58 and 81): the skeleton, labels and    *)
(* notes are drawn; with clearBackground set the canvas is wiped first.    *)
DrawMolecule(d, m) ==
  LET mark == [kind |-> "mol", data |-> [note |-> m.note, label |-> m.label]]
  IN  [d EXCEPT !.canvas = IF d.clearBackground THEN <<mark>> ELSE Append(@, mark)]

(* Draw.ContourAndDrawGaussians (line 79): the library requires one weight *)
(* and one sigma per location and paints the bands over the canvas.        *)
ContourSizesMatch(ls, ws, sgs) == Len(ls) = Len(ws) /\ Len(ls) = Len(sgs)

ContourAndDrawGaussians(d, ls, ws, sgs, n, ps) ==
  LET mark == [kind |-> "contour",
               data |-> [locs |-> ls, weights |-> ws, sigmas |-> sgs,
                         nContours |-> n, clrs |-> ps.colourMap]]
  IN  [d EXCEPT !.canvas = Append(@, mark)]

(* drawer.DrawString(text, Point2D(0, y)) (lines 110-117)                  *)
DrawString(d, text, x, y10) ==
  [d EXCEPT !.canvas = Append(@, [kind |-> "text",
                                  data |-> [text |-> text, x |-> x, y10 |-> y10]])]

NoLocals ==
  [sigmas |-> << >>, locs |-> << >>, max_atom_pos_y |-> 0,
   ps |-> [fillGrid |-> FALSE, colourMap |-> << >>]]

NoRet == [returned |-> FALSE, canvas |-> "None", isTuple |-> FALSE, top_y |-> 0]

----------------------------------------------------------------------------
(* The inputs explored. *)

YCoords == (0 - MaxCoord)..MaxCoord

(* atom i sits at x = i - 1 and at any of the y coordinates *)
Layouts(n) == {[i \in 1..n |-> <<i - 1, y[i]>>] : y \in [1..n -> YCoords]}

(* heavy atoms only, or one explicit hydrogen kept as the last atom *)
AtomSeqs(n) ==
  {[i \in 1..n |-> "C"]} \cup
  (IF n >= 1 THEN {[i \in 1..n |-> IF i = n THEN "H" ELSE "C"]} ELSE {})

(* no bond, or bond 0 from the first atom to the second, or from the last *)
(* atom to the first                                                      *)
BondChoices(n) ==
  IF n < 2 THEN {<< >>} ELSE {<< >>, <<1, 2>>, <<n, 1>>}

(* k distinguishable weights, in tenths: 0.1, 0.5, 0.9, 0.3, 0.7 *)
GivenWeights(k) == [i \in 1..k |-> (4 * i - 3) % 10]

Modes == {"pred", "ale", "epi", "total", "other"}

(* 0.375 and -0.625, in eighths *)
SummaryValues == {3, 0 - 5}

ColorMaps ==
  { [kind |-> "none",  steps |-> 0,   colours |-> << >>],
    RenderCmap,
    [kind |-> "name",  steps |-> 256, colours |-> <<"blue", "white", "red">>],
    [kind |-> "list",  steps |-> 0,   colours |-> <<"red", "white">>],
    [kind |-> "list",  steps |-> 0,   colours |-> <<"red", "white", "red">>],
    [kind |-> "list",  steps |-> 0,   colours |-> <<"red", "white", "red", "blue">>],
    [kind |-> "other", steps |-> 0,   colours |-> << >>] }

NoColorMap == [kind |-> "none", steps |-> 0, colours |-> << >>]

(* a call of draw_molecule_with_atom_notes *)
InitRender ==
  /\ entry = "render"
  /\ pc = "r_setup"
  /\ smiles \in {NoMol} \cup
       UNION {{NewMol(a, IF n >= 2 THEN <<1, 2>> ELSE << >>, l, FALSE) :
                 a \in AtomSeqs(n), l \in Layouts(n)} : n \in 0..MaxAtoms}
  /\ mol = NoMol
  /\ unc_type \in Modes
  /\ mol_note \in SummaryValues
  /\ atom_notes \in {GivenWeights(k) : k \in 0..(MaxAtoms + 1)}
  /\ svg \in BOOLEAN
  /\ given = [atom_notes |-> atom_notes, sigma |-> << >>]
  /\ weights = << >>
  /\ colorMap = NoColorMap
  /\ sigma = << >>
  /\ drawer = NoDrawer
  /\ ops = << >>
  /\ locals = NoLocals
  /\ ret = NoRet
  /\ result = << >>
  /\ err = ""

(* a direct call of _get_similarity_map_from_weights, on a molecule that   *)
(* carries its conformer                                                   *)
InitField ==
  /\ entry = "field"
  /\ pc = "f_check"
  /\ smiles = NoMol
  /\ mol \in UNION {{NewMol([i \in 1..n |-> "C"], b, l, TRUE) :
                       b \in BondChoices(n), l \in Layouts(n)} :
                    n \in 0..MaxAtoms}
  /\ unc_type \in Modes \ {"other"}
  /\ mol_note = 0
  /\ atom_notes = << >>
  /\ svg = TRUE
  /\ weights = GivenWeights(Len(mol.atoms))
  /\ colorMap \in ColorMaps
  /\ sigma \in {<< >>, <<RenderSigma>>}
  /\ given = [atom_notes |-> << >>, sigma |-> sigma]
  /\ drawer \in {NewDrawer(TRUE), NoDrawer}
  /\ ops = << >>
  /\ locals = NoLocals
  /\ ret = NoRet
  /\ result = << >>
  /\ err = ""

----------------------------------------------------------------------------
(* draw_molecule_with_atom_notes, lines 85-121 *)

(* Lines 102-104: zip pairs the atoms with the notes and stops at the     *)
(* shorter of the two; each paired atom gets its note and its label.      *)
Annotate(m, notes) ==
  LET k == Min2(Len(m.atoms), Len(notes))
  IN  [m EXCEPT
         !.note  = [i \in 1..Len(m.atoms) |-> IF i <= k THEN StrFloat(notes[i]) ELSE @[i]],
         !.label = [i \in 1..Len(m.atoms) |-> IF i <= k THEN m.atoms[i] ELSE @[i]]]

(* Line 94: atom_notes[:mol.GetNumHeavyAtoms()] *)
TruncateNotes(notes, m) == Take(notes, HeavyCount(m.atoms))

(* Lines 86-101: parse, truncate the notes, allocate and configure the    *)
(* drawer.  A notation that does not parse gives None, and line 94 fails.  *)
RSetup ==
  /\ pc = "r_setup"
  /\ IF ~smiles.parsed
       THEN /\ pc' = "raised"
            /\ err' = "AttributeError"
            /\ UNCHANGED <<mol, atom_notes, drawer>>
       ELSE /\ mol' = smiles
            /\ atom_notes' = TruncateNotes(atom_notes, smiles)
            /\ drawer' = NewDrawer(svg)
            /\ pc' = "r_annotate"
            /\ err' = err
  /\ UNCHANGED <<entry, given, smiles, unc_type, mol_note, svg, weights, colorMap,
                 sigma, ops, locals, ret, result>>

(* Lines 102-104 *)
RAnnotate ==
  /\ pc = "r_annotate"
  /\ mol' = Annotate(mol, atom_notes)
  /\ pc' = "r_call"
  /\ UNCHANGED <<entry, given, smiles, unc_type, mol_note, atom_notes, svg, weights,
                 colorMap, sigma, drawer, ops, locals, ret, result, err>>

(* Line 106: the call of _get_similarity_map_from_weights *)
RCall ==
  /\ pc = "r_call"
  /\ weights' = atom_notes
  /\ colorMap' = RenderCmap
  /\ sigma' = <<RenderSigma>>
  /\ pc' = "f_check"
  /\ UNCHANGED <<entry, given, smiles, mol, unc_type, mol_note, atom_notes, svg,
                 drawer, ops, locals, ret, result, err>>

(* Lines 106-117: unpack the pair, scale the y and draw the caption.       *)
RCaption ==
  /\ pc = "r_caption"
  /\ drawer' = DrawString(drawer, CaptionText(unc_type, mol_note), 0,
                          CaptionScale10 * ret.top_y)
  /\ ops' = Append(ops, "DrawString")
  /\ pc' = "r_finish"
  /\ UNCHANGED <<entry, given, smiles, mol, unc_type, mol_note, atom_notes, svg,
                 weights, colorMap, sigma, locals, ret, result, err>>

(* Lines 119-121: finish the drawing and return its text.                  *)
RFinish ==
  /\ pc = "r_finish"
  /\ drawer' = [drawer EXCEPT !.finished = TRUE]
  /\ ops' = Append(ops, "FinishDrawing")
  /\ result' = <<[format |-> drawer.kind, content |-> drawer.canvas]>>
  /\ pc' = "done"
  /\ UNCHANGED <<entry, given, smiles, mol, unc_type, mol_note, atom_notes, svg,
                 weights, colorMap, sigma, locals, ret, err>>

----------------------------------------------------------------------------
(* _get_similarity_map_from_weights, lines 14-82 *)

(* where control goes when render_field returns *)
AfterReturn == IF entry = "render" THEN "r_caption" ELSE "done"

(* faulty variant: the guard is missing *)
TooFewAtomsNever(m) == FALSE

(* faulty variant: the guard is off by one *)
TooFewAtomsBelowOne(m) == Len(m.atoms) < 1

(* Lines 30-31 *)
TooFewAtoms(m) == Len(m.atoms) < 2

FCheck ==
  /\ pc = "f_check"
  /\ IF TooFewAtoms(mol)
       THEN pc' = "raised" /\ err' = "ValueError: too few atoms"
       ELSE pc' = "f_prepare" /\ err' = err
  /\ UNCHANGED <<entry, given, smiles, mol, unc_type, mol_note, atom_notes, svg,
                 weights, colorMap, sigma, drawer, ops, locals, ret, result>>

(* Lines 33-36: without a canvas the function falls through and returns   *)
(* None; with one, the molecule gets its 2D coordinates if it has none.    *)
FPrepare ==
  /\ pc = "f_prepare"
  /\ IF drawer.kind = "none"
       THEN /\ ret' = [returned |-> TRUE, canvas |-> "None", isTuple |-> FALSE, top_y |-> 0]
            /\ pc' = AfterReturn
            /\ mol' = mol
       ELSE /\ mol' = [mol EXCEPT !.conf = IF @ = << >> THEN mol.layout ELSE @]
            /\ pc' = "f_sigma"
            /\ ret' = ret
  /\ UNCHANGED <<entry, given, smiles, unc_type, mol_note, atom_notes, svg, weights,
                 colorMap, sigma, drawer, ops, locals, result, err>>

(* Lines 37-49 *)
FSigma ==
  /\ pc = "f_sigma"
  /\ sigma' = DeriveSigma(mol, sigma)
  /\ locals' = [locals EXCEPT !.sigmas = [i \in 1..Len(mol.atoms) |-> sigma'[1]]]
  /\ pc' = "f_locs"
  /\ UNCHANGED <<entry, given, smiles, mol, unc_type, mol_note, atom_notes, svg,
                 weights, colorMap, drawer, ops, ret, result, err>>

(* Lines 50-55 *)
FLocs ==
  /\ pc = "f_locs"
  /\ locals' = [locals EXCEPT !.locs = Locs(mol.conf),
                              !.max_atom_pos_y = TopY(mol.conf)]
  /\ pc' = "f_mode"
  /\ UNCHANGED <<entry, given, smiles, mol, unc_type, mol_note, atom_notes, svg,
                 weights, colorMap, sigma, drawer, ops, ret, result, err>>

(* faulty variant: the mode is compared with another spelling *)
IsPredOtherSpelling(t) == t = "prediction"

(* Line 57 *)
IsPred(t) == t = "pred"

(* Lines 57-59: prediction mode draws the bare molecule and returns.       *)
FPred ==
  /\ pc = "f_mode"
  /\ IsPred(unc_type)
  /\ drawer' = DrawMolecule(drawer, mol)
  /\ ops' = Append(ops, "DrawMolecule")
  /\ ret' = [returned |-> TRUE, canvas |-> "None", isTuple |-> TRUE,
             top_y |-> locals.max_atom_pos_y]
  /\ pc' = AfterReturn
  /\ UNCHANGED <<entry, given, smiles, mol, unc_type, mol_note, atom_notes, svg,
                 weights, colorMap, sigma, locals, result, err>>

(* Lines 61-65 *)
FClear ==
  /\ pc = "f_mode"
  /\ ~IsPred(unc_type)
  /\ drawer' = ClearDrawing(drawer)
  /\ ops' = Append(ops, "ClearDrawing")
  /\ locals' = [locals EXCEPT !.ps = [fillGrid |-> TRUE, colourMap |-> << >>]]
  /\ pc' = "f_colour"
  /\ UNCHANGED <<entry, given, smiles, mol, unc_type, mol_note, atom_notes, svg,
                 weights, colorMap, sigma, ret, result, err>>

(* Lines 67-77 *)
FColour ==
  /\ pc = "f_colour"
  /\ IF colorMap.kind = "none"
       THEN pc' = "f_contour" /\ UNCHANGED <<locals, err>>
       ELSE IF ResolveColours(colorMap).ok
         THEN /\ locals' = [locals EXCEPT !.ps.colourMap = ResolveColours(colorMap).clrs]
              /\ pc' = "f_contour"
              /\ err' = err
         ELSE /\ pc' = "raised"
              /\ err' = ResolveColours(colorMap).err
              /\ locals' = locals
  /\ UNCHANGED <<entry, given, smiles, mol, unc_type, mol_note, atom_notes, svg,
                 weights, colorMap, sigma, drawer, ops, ret, result>>

(* contourLines: 2 from render (line 106), the default 10 otherwise (line 15) *)
ContourLines == IF entry = "render" THEN RenderContours ELSE DefaultContours

(* Line 79 *)
FContour ==
  /\ pc = "f_contour"
  /\ IF ContourSizesMatch(locals.locs, weights, locals.sigmas)
       THEN /\ drawer' = ContourAndDrawGaussians(drawer, locals.locs, weights,
                           locals.sigmas, ContourLines, locals.ps)
            /\ ops' = Append(ops, "ContourAndDrawGaussians")
            /\ pc' = "f_draw"
            /\ err' = err
       ELSE /\ pc' = "raised"
            /\ err' = "RuntimeError: size mismatch"
            /\ UNCHANGED <<drawer, ops>>
  /\ UNCHANGED <<entry, given, smiles, mol, unc_type, mol_note, atom_notes, svg,
                 weights, colorMap, sigma, locals, ret, result>>

(* faulty variant: line 80 is missing *)
KeepBackgroundMissing(d) == d

(* Line 80: draw2d.drawOptions().clearBackground = False *)
KeepBackground(d) == [d EXCEPT !.clearBackground = FALSE]

(* Lines 80-82 *)
FDraw ==
  /\ pc = "f_draw"
  /\ drawer' = DrawMolecule(KeepBackground(drawer), mol)
  /\ ops' = Append(ops, "DrawMolecule")
  /\ ret' = [returned |-> TRUE, canvas |-> "draw2d", isTuple |-> TRUE,
             top_y |-> locals.max_atom_pos_y]
  /\ pc' = AfterReturn
  /\ UNCHANGED <<entry, given, smiles, mol, unc_type, mol_note, atom_notes, svg,
                 weights, colorMap, sigma, locals, result, err>>

----------------------------------------------------------------------------
FieldNext ==
  \/ FCheck
  \/ FPrepare
  \/ FSigma
  \/ FLocs
  \/ FPred
  \/ FClear
  \/ FColour
  \/ FContour
  \/ FDraw

Next ==
  \/ RSetup
  \/ RAnnotate
  \/ RCall
  \/ FieldNext
  \/ RCaption
  \/ RFinish

Spec == InitRender /\ [][Next]_vars

SpecField == InitField /\ [][FieldNext]_vars

(* calls of either function *)
SpecAll == (InitRender \/ InitField) /\ [][Next]_vars

----------------------------------------------------------------------------
(* Properties *)

Terminated == pc \in {"done", "raised"}

OpCount(name) == Cardinality({i \in 1..Len(ops) : ops[i] = name})

OpIndex(name) == CHOOSE i \in 1..Len(ops) : ops[i] = name

Kinds(canvas) == [i \in 1..Len(canvas) |-> canvas[i].kind]

MarksOf(canvas, kind) == {i \in 1..Len(canvas) : canvas[i].kind = kind}

(* the largest y among the atom positions of a layout *)
LargestY(conf) ==
  CHOOSE y \in {conf[i][2] : i \in 1..Len(conf)} :
    \A j \in 1..Len(conf) : conf[j][2] <= y

(* k/8 written with two decimals: the hundredth nearest to k/8, the even   *)
(* one of the two when k/8 lies exactly between them                       *)
NearestHundredth(m) ==
  CHOOSE h \in 0..(13 * m + 1) :
    /\ 2 * h - 25 * m \in {0 - 1, 0, 1}
    /\ (2 * h # 25 * m) => h % 2 = 0

TwoDecimals(k) ==
  LET m == IF k < 0 THEN 0 - k ELSE k
      h == NearestHundredth(m)
  IN  (IF k < 0 THEN "-" ELSE "") \o Digits(h \div 100) \o "."
        \o DigitChar[((h \div 10) % 10) + 1] \o DigitChar[(h % 10) + 1]

ModePrefix(t) ==
  CASE t = "pred" -> "Prediction: "
    [] t = "ale"  -> "Aleatoric: "
    [] t = "epi"  -> "Epistemic: "
    [] OTHER      -> "Total: "

(* the s with s - 1/2 <= 30 * sqrt(d2) < s + 1/2, in hundredths; it lies   *)
(* between 30 * r and 30 * (r + 1) for the integer r <= sqrt(d2) < r + 1   *)
NearestSigma(d2) ==
  LET r == CHOOSE x \in 0..d2 : x * x <= d2 /\ d2 < (x + 1) * (x + 1)
  IN  CHOOSE s \in (30 * r)..(30 * r + 30) :
        /\ (2 * s - 1) * (2 * s - 1) <= 3600 * d2
        /\ 3600 * d2 < (2 * s + 1) * (2 * s + 1)

(* C1, as claimed: for every structure that parses with at least 1 atom, a *)
(* render call in prediction mode never fails with the too-few-atoms error *)
(* and ends with a finished artifact that carries the Prediction caption.  *)
C1_PredictionNeedsNoSecondAtom ==
  (smiles.parsed /\ Len(smiles.atoms) >= 1 /\ unc_type = "pred") =>
    /\ err # "ValueError: too few atoms"
    /\ Terminated =>
         /\ pc = "done"
         /\ result # << >>
         /\ \E i \in MarksOf(result[1].content, "text") :
              result[1].content[i].data.text = "Prediction: " \o TwoDecimals(mol_note)

(* C1, amended: a render call in prediction mode on a structure that       *)
(* parses succeeds iff the structure has at least 2 atoms, and then ends   *)
(* with a finished artifact that carries the Prediction caption and no     *)
(* contours; with fewer than 2 atoms it fails with the too-few-atoms error *)
(* as in every other mode, before anything is drawn and with no artifact.  *)
C1_PredictionNeedsTwoAtoms ==
  (smiles.parsed /\ unc_type = "pred" /\ Terminated) =>
    IF Len(smiles.atoms) >= 2
      THEN /\ pc = "done"
           /\ err = ""
           /\ drawer.finished
           /\ Kinds(result[1].content) = <<"mol", "text">>
           /\ result[1].content[2].data.text = "Prediction: " \o TwoDecimals(mol_note)
      ELSE /\ pc = "raised"
           /\ err = "ValueError: too few atoms"
           /\ ops = << >>
           /\ result = << >>

C1_Witness ==
  /\ pc = "raised"
  /\ unc_type = "pred"
  /\ smiles.atoms = <<"C">>
  /\ err = "ValueError: too few atoms"
  /\ result = << >>

(* C2: for a structure with fewer than 2 atoms and a mode other than       *)
(* prediction, render_field fails with the too-few-atoms error before any  *)
(* operation is applied to the canvas, and render draws no caption, does   *)
(* not finish the canvas and returns nothing.                              *)
C2_TooFewAtomsFailsUndrawn ==
  (smiles.parsed /\ Len(smiles.atoms) < 2 /\ unc_type # "pred") =>
    /\ ops = << >>
    /\ drawer.canvas = << >>
    /\ ~drawer.finished
    /\ result = << >>
    /\ ~ret.returned
    /\ pc \in {"r_setup", "r_annotate", "r_call", "f_check", "raised"}
    /\ pc = "raised" => err = "ValueError: too few atoms"

C2_Witness ==
  /\ pc = "raised"
  /\ err = "ValueError: too few atoms"
  /\ Len(smiles.atoms) = 1
  /\ unc_type = "epi"
  /\ drawer.kind # "none"

(* C3: with N heavy atoms, a render call given more than N weights does    *)
(* not fail and uses exactly the first N weights for the notes and for the *)
(* field; a render call given fewer than N weights raises an error and     *)
(* returns no artifact.  (Stated for structures of at least 2 atoms, all   *)
(* of them heavy.)                                                         *)
C3_FewerWeightsRaise ==
  LET N == HeavyCount(smiles.atoms)
  IN  (smiles.parsed /\ Terminated /\ N = Len(smiles.atoms) /\ N >= 2) =>
        /\ Len(given.atom_notes) > N =>
             /\ pc = "done"
             /\ atom_notes = SubSeq(given.atom_notes, 1, N)
             /\ weights = SubSeq(given.atom_notes, 1, N)
             /\ \A i \in 1..N : mol.note[i] = StrFloat(given.atom_notes[i])
        /\ Len(given.atom_notes) < N => (pc = "raised" /\ result = << >>)

(* C4: every successful render call draws exactly one caption string, at   *)
(* x = 0 and y = 1.7 * top_y, whose text is the prefix of the mode         *)
(* (Prediction, Aleatoric, Epistemic, and Total for any other value)       *)
(* followed by the summary value with two decimals.                        *)
C4_OneCaptionByMode ==
  pc = "done" =>
    /\ OpCount("DrawString") = 1
    /\ Cardinality(MarksOf(result[1].content, "text")) = 1
    /\ \A i \in MarksOf(result[1].content, "text") :
         /\ result[1].content[i].data.x = 0
         /\ result[1].content[i].data.y10 = 17 * ret.top_y
         /\ result[1].content[i].data.text = ModePrefix(unc_type) \o TwoDecimals(mol_note)

C4_Witness ==
  /\ pc = "done"
  /\ unc_type = "epi"
  /\ mol_note = 3
  /\ ret.top_y = 1
  /\ \E i \in MarksOf(result[1].content, "text") :
       result[1].content[i].data = [text |-> "Epistemic: 0.38", x |-> 0, y10 |-> 17]

(* C5: in every successful render call the contours are painted iff the    *)
(* mode is not prediction.  A prediction call never clears the canvas nor  *)
(* paints contours, and render_field returns (None, top_y); any other call *)
(* paints the contours before the canvas is finished, and render_field     *)
(* returns (canvas, top_y).                                                *)
C5_ContoursIffNotPrediction ==
  pc = "done" =>
    /\ (OpCount("ContourAndDrawGaussians") > 0) <=> (unc_type # "pred")
    /\ ret.returned /\ ret.isTuple /\ ret.top_y = locals.max_atom_pos_y
    /\ unc_type = "pred" =>
         /\ OpCount("ClearDrawing") = 0
         /\ MarksOf(result[1].content, "contour") = {}
         /\ ret.canvas = "None"
    /\ unc_type # "pred" =>
         /\ OpCount("ContourAndDrawGaussians") = 1
         /\ OpIndex("ContourAndDrawGaussians") < OpIndex("FinishDrawing")
         /\ MarksOf(result[1].content, "contour") # {}
         /\ ret.canvas = "draw2d"

C5_Witness ==
  /\ pc = "done"
  /\ unc_type = "pred"
  /\ ops = <<"DrawMolecule", "DrawString", "FinishDrawing">>
  /\ ret.canvas = "None"

(* C6: for every layout of at least 2 atoms and every mode, the top_y that *)
(* render_field returns is the largest y among the atom positions, also    *)
(* when every atom has a negative y.                                       *)
C6_TopYIsLargestY ==
  (ret.returned /\ ret.isTuple) => ret.top_y = LargestY(mol.conf)

(* C7: called without a sigma, render_field uses for every kernel the      *)
(* spread round(0.3 * distance(p1, p2), 2), p1 and p2 being the ends of    *)
(* bond 0 if there is a bond and atoms 0 and 1 if there is none; a sigma   *)
(* that is supplied (render always supplies 0.25) is used unchanged.       *)
SigmaStepDone ==
  \/ pc \in {"f_locs", "f_mode", "f_colour", "f_contour", "f_draw",
             "r_caption", "r_finish"}
  \/ pc = "done" /\ ret.isTuple
  \/ pc = "raised" /\ err \in {"IndexError", "TypeError", "RuntimeError: size mismatch"}

SpreadExpected ==
  IF entry = "render" THEN 25
  ELSE IF given.sigma # << >> THEN given.sigma[1]
  ELSE IF mol.bond0 # << >>
    THEN NearestSigma(Dist2(mol.layout[mol.bond0[1]], mol.layout[mol.bond0[2]]))
    ELSE NearestSigma(Dist2(mol.layout[1], mol.layout[2]))

C7_SpreadOfEveryKernel ==
  SigmaStepDone =>
    /\ Len(locals.sigmas) = Len(mol.atoms)
    /\ locals.sigmas = [i \in 1..Len(mol.atoms) |-> SpreadExpected]
    /\ \A i \in MarksOf(drawer.canvas, "contour") :
         drawer.canvas[i].data.sigmas = locals.sigmas

C7_Witness ==
  /\ entry = "field"
  /\ pc = "f_draw"
  /\ given.sigma = << >>
  /\ mol.bond0 = <<3, 1>>
  /\ Dist2(mol.conf[1], mol.conf[3]) = 8
  /\ Dist2(mol.conf[1], mol.conf[2]) = 1
  /\ drawer.canvas[1].data.sigmas = <<85, 85, 85>>

(* C8: whenever render_field is given a colour scale that is neither a     *)
(* named scale, a colormap object nor a list of 3 colours, the call fails  *)
(* with the colour-scale error, and no operation (clear, contour, draw     *)
(* molecule) has been applied to the canvas when it fails.                 *)
UnsupportedColorMap(c) ==
  c.kind = "other" \/ (c.kind = "list" /\ Len(c.colours) # 3)

C8_BadColourScaleFailsUndrawn ==
  (UnsupportedColorMap(colorMap) /\ drawer.kind # "none" /\ Len(mol.atoms) >= 2
     /\ Terminated) =>
    /\ pc = "raised"
    /\ err \in {"IndexError", "TypeError"}
    /\ ops = << >>

(* C9: in every successful render call outside prediction mode the canvas  *)
(* operations are: contour bands painted, molecule drawn, caption drawn,   *)
(* canvas finished; the contour painting erases nothing, and the molecule  *)
(* is drawn with background clearing disabled, so the finished artifact    *)
(* still holds the contour bands.                                          *)
C9_ContourMoleculeCaptionFinish ==
  /\ (pc = "f_contour" /\ unc_type # "pred") => drawer.canvas = << >>
  /\ (pc = "f_draw" /\ unc_type # "pred") => Kinds(drawer.canvas) = <<"contour">>
  /\ (pc = "done" /\ unc_type # "pred") =>
       /\ ops = <<"ClearDrawing", "ContourAndDrawGaussians", "DrawMolecule",
                  "DrawString", "FinishDrawing">>
       /\ ~drawer.clearBackground
       /\ drawer.finished
       /\ Kinds(result[1].content) = <<"contour", "mol", "text">>

C9_Witness ==
  /\ pc = "done"
  /\ unc_type = "total"
  /\ Len(mol.atoms) = 3
  /\ Kinds(result[1].content) = <<"contour", "mol", "text">>

(* C10: in every render call outside prediction mode that reaches the      *)
(* field computation, the centres, amplitudes and spreads passed to the    *)
(* contour step each have one entry per atom, and kernel i has the         *)
(* position of atom i as centre and the weight noted on atom i as          *)
(* amplitude, also when the structure keeps explicit hydrogen atoms.       *)
(* (Stated for calls that were given at least one weight per heavy atom.)  *)
C10_OneKernelPerAtom ==
  (pc = "f_contour" /\ Len(given.atom_notes) >= HeavyCount(mol.atoms)) =>
    /\ Len(locals.locs) = Len(mol.atoms)
    /\ Len(locals.sigmas) = Len(mol.atoms)
    /\ Len(weights) = Len(mol.atoms)
    /\ \A i \in 1..Len(mol.atoms) :
         /\ locals.locs[i] = mol.conf[i]
         /\ mol.note[i] = StrFloat(weights[i])

====
